---- MODULE Spec2Model ----
(***************************************************************************)
(* ZoomControls (src/src/lib/ZoomControls.js): the zoom-out button, the    *)
(* current-scale label and the zoom-in button of the preview control bar.  *)
(*                                                                         *)
(* JavaScript values are records [k, n]:                                   *)
(*   k = "fin"       a finite double, n counts 1/Den-ths of a unit         *)
(*   k = "huge"      a finite double of magnitude 1e307 (n = sign): finite, *)
(*                   but its hundredfold overflows to +/-Infinity          *)
(*   k = "inf"       +Infinity or -Infinity (n = sign)                     *)
(*   k = "nan"       NaN                                                   *)
(*   k = "undefined" undefined                                             *)
(*   k = "string"    a value that is not of type number (the string '1')   *)
(* Text is a sequence of one-character strings.                            *)
(***************************************************************************)
EXTENDS Integers, Sequences, FiniteSets, TLC

\* ------------------------------------------------------------------ bounds

\* The finite scales offered to init and setCurrentScale run in steps of 0.5
\* from -0.5 to MaxSteps * 0.5.
MaxSteps == 2

\* ------------------------------------------------------- JavaScript values

\* Finite doubles are counted in 1/200ths: a scale on this grid times 100
\* is a multiple of one half, which is where Math.round decides.
Den == 2 * 100

Fin(n) == [k |-> "fin", n |-> n]
Whole(i) == Fin(i * Den)
PosInf == [k |-> "inf", n |-> 1]
NaN == [k |-> "nan", n |-> 0]
Huge == [k |-> "huge", n |-> 1]
Undefined == [k |-> "undefined", n |-> 0]
Str == [k |-> "string", n |-> 0]

\* typeof value == 'number'
IsNumber(x) == x.k \in {"fin", "huge", "inf", "nan"}

\* isFinite with a slip: any value that is not NaN or undefined passes,
\* the infinities among them.
isFinite_NoInfCheck(value) == value.k \in {"fin", "huge", "inf", "string"}

\* lodash/isFinite: typeof value == 'number' && nativeIsFinite(value)
isFinite(value) == IsNumber(value) /\ value.k \in {"fin", "huge"}

\* ToNumber of the operand of an arithmetic operator or a comparison
ToNumber(x) == IF IsNumber(x) THEN x ELSE NaN

\* x * 100 in IEEE doubles
Times100(x) ==
  LET v == ToNumber(x) IN
  CASE v.k = "fin" -> Fin(v.n * 100)
    [] v.k = "huge" -> [k |-> "inf", n |-> v.n]
    [] OTHER -> v

\* Math.floor, written where Math.round was meant
MathRound_Floor(x) ==
  LET v == ToNumber(x) IN
  IF v.k = "fin" THEN Fin(Den * (v.n \div Den)) ELSE v

\* Math.round: the nearest integer, a tie going toward +Infinity
MathRound(x) ==
  LET v == ToNumber(x) IN
  IF v.k = "fin" THEN Fin(Den * ((2 * v.n + Den) \div (2 * Den))) ELSE v

\* The place of a number that is not NaN on the extended real line
Rank(v) ==
  CASE v.k = "inf" -> 2 * v.n
    [] v.k = "huge" -> v.n
    [] OTHER -> 0

Less(a, b) ==
  LET x == ToNumber(a)
      y == ToNumber(b)
  IN  /\ x.k # "nan"
      /\ y.k # "nan"
      /\ \/ Rank(x) < Rank(y)
         \/ x.k = "fin" /\ y.k = "fin" /\ x.n < y.n

\* a <= b and a >= b of JavaScript: false when either side is NaN
LessEq(a, b) ==
  LET x == ToNumber(a)
      y == ToNumber(b)
  IN  x.k # "nan" /\ y.k # "nan" /\ (x = y \/ Less(x, y))

GreaterEq(a, b) == LessEq(b, a)

\* Math.max(a, b)
MathMax(a, b) ==
  LET x == ToNumber(a)
      y == ToNumber(b)
  IN  IF x.k = "nan" \/ y.k = "nan" THEN NaN
      ELSE IF Less(x, y) THEN y ELSE x

\* ------------------------------------------------------ number to string

DigitChars == <<"0", "1", "2", "3", "4", "5", "6", "7", "8", "9">>

RECURSIVE NatToChars(_)
NatToChars(i) ==
  IF i < 10 THEN <<DigitChars[i + 1]>>
  ELSE NatToChars(i \div 10) \o <<DigitChars[(i % 10) + 1]>>

\* The decimals of r/Den, 0 < r < Den: r/200 = (5r)/1000, trailing zeros cut
FractionChars(r) ==
  LET t == 5 * r
      d1 == t \div 100
      d2 == (t \div 10) % 10
      d3 == t % 10
  IN  <<".", DigitChars[d1 + 1]>>
      \o (IF d2 # 0 \/ d3 # 0 THEN <<DigitChars[d2 + 1]>> ELSE <<>>)
      \o (IF d3 # 0 THEN <<DigitChars[d3 + 1]>> ELSE <<>>)

\* String(x), as a template literal `${x}` converts it
NumberToString(x) ==
  CASE x.k = "fin" ->
         LET a == IF x.n < 0 THEN -x.n ELSE x.n IN
         (IF x.n < 0 THEN <<"-">> ELSE <<>>)
         \o NatToChars(a \div Den)
         \o (IF a % Den # 0 THEN FractionChars(a % Den) ELSE <<>>)
    [] x.k = "huge" ->
         (IF x.n < 0 THEN <<"-">> ELSE <<>>) \o <<"1", "e", "+", "3", "0", "7">>
    [] x.k = "inf" ->
         (IF x.n < 0 THEN <<"-">> ELSE <<>>)
         \o <<"I", "n", "f", "i", "n", "i", "t", "y">>
    [] x.k = "nan" -> <<"N", "a", "N">>
    [] x.k = "undefined" -> <<"u", "n", "d", "e", "f", "i", "n", "e", "d">>
    [] OTHER -> <<"1">>

\* ------------------------------------------------------------ the host DOM

CLASS_ZOOM_CURRENT_SCALE == "bp-zoom-current-scale"
CLASS_ZOOM_IN_BUTTON == "bp-zoom-in-btn"
CLASS_ZOOM_OUT_BUTTON == "bp-zoom-out-btn"
CLASS_ZOOM_BUTTON == "bp-zoom-btn"
CLASS_BOX_CONTROLS_GROUP_BUTTON == "bp-controls-group-btn"

\* The text of the scale label's initial markup, <span ...>100%</span>
DefaultScaleText == <<"1", "0", "0", "%">>

\* An element: its accessible label, click handler, tag, class list,
\* textContent and disabled flag. A tree is [dom, els]: els numbers the
\* elements as they are created (0 is null), dom lists the groups of the
\* control bar, each the numbers of its elements in document order.
Element(label, handler, tag, classes, text) ==
  [label |-> label, handler |-> handler, tag |-> tag, classes |-> classes,
   text |-> text, disabled |-> FALSE]

\* The class list of a className string built from fixed names and one
\* caller-supplied name, which may be empty
ClassList(fixed, extra) == fixed \cup (IF extra = "" THEN {} ELSE {extra})

RECURSIVE Flatten(_)
Flatten(groups) ==
  IF groups = <<>> THEN <<>> ELSE Head(groups) \o Flatten(Tail(groups))

\* controlsElement.querySelector(`.${cls}`): the first element of the tree,
\* in document order, with the class; null (0) if there is none
querySelector(h, cls) ==
  LET ids == Flatten(h.dom)
      hits == {i \in 1..Len(ids) : cls \in h.els[ids[i]].classes}
  IN  IF hits = {} THEN 0
      ELSE ids[CHOOSE i \in hits : \A j \in hits : i <= j]

\* Controls.addGroup(): a new, empty group appended to the control bar
addGroup(h) == [h EXCEPT !.dom = Append(@, <<>>)]

\* Controls.add(text, handler, classList, content, tag, parent): a new
\* element appended to the group `parent` (an index of h.dom)
add(h, el, parent) ==
  [dom |-> [h.dom EXCEPT ![parent] = Append(@, Len(h.els) + 1)],
   els |-> Append(h.els, el)]

\* The tree without element number id (the element itself lives on)
Detach(h, id) ==
  [h EXCEPT !.dom = [g \in DOMAIN h.dom |-> SelectSeq(h.dom[g], LAMBDA x : x # id)]]

\* The control bars a viewer hands over: empty, or holding one other control
HostTrees ==
  { [dom |-> <<>>, els |-> <<>>],
    [dom |-> << <<1>> >>,
     els |-> <<Element("enter_fullscreen", "toggleFullscreen", "button",
                       {"bp-btn", "bp-enter-fullscreen-icon"}, <<>>)>>] }

\* What a caller may pass to the constructor: null, a plain object, or an
\* instance of Controls
ControlsArgs == {"null", "object", "Controls"}

\* ------------------------------------------------------------------ inputs

\* The finite scales: -0.5, 0, 0.5, ..., MaxSteps/2 and the two dyadic
\* fractions 0.125 (12.5%, a tie of Math.round) and 0.25
FiniteScales ==
  {Fin(i * 100) : i \in -1..MaxSteps} \cup {Fin(25), Fin(50)}

ScaleArgs == FiniteScales \cup {Huge, PosInf, NaN, Undefined}

MinZoomArgs == {Undefined, NaN, Fin(-100), Fin(50), Fin(200)}

MaxZoomArgs == {Undefined, Str, Fin(-100), Fin(200), Huge}

\* zoomOutClassName and zoomInClassName: each left empty or given
ClassNameArgs == {<<"", "bp-doc-zoom-in">>, <<"bp-doc-zoom-out", "">>}

\* ------------------------------------------------------------------ state

VARIABLES
  pc,                   \* "start", "constructed", "initialized", "failed"
  controls,             \* this.controls
  controlsEl,           \* the tree of the control bar, controls.controlsEl
  controlsElement,      \* this.controlsElement: "undefined" or "controlsEl"
  currentScale,         \* this.currentScale
  currentScaleElement,  \* this.currentScaleElement: an element number, 0 unset
  maxZoom, minZoom,     \* this.maxZoom, this.minZoom
  error,                \* what the last call threw: "none", "Error", "TypeError"
  lastCall,             \* the last call made
  lastArg,              \* its scale argument
  optMin, optMax,       \* the minZoom and maxZoom options given to init
  initFinite,           \* init was given a finite currentScale
  applied,              \* a finite scale was applied since init began
  repeated              \* the last call repeated the call before it

vars ==
  <<pc, controls, controlsEl, controlsElement, currentScale,
    currentScaleElement, maxZoom, minZoom, error, lastCall, lastArg, optMin,
    optMax, initFinite, applied, repeated>>

fields == <<currentScale, currentScaleElement, maxZoom, minZoom>>

Init ==
  /\ pc = "start"
  /\ controls = "undefined"
  /\ controlsEl \in HostTrees
  /\ controlsElement = "undefined"
  /\ currentScale = Undefined
  /\ currentScaleElement = 0
  /\ maxZoom = Undefined
  /\ minZoom = Undefined
  /\ error = "none"
  /\ lastCall = "none"
  /\ lastArg = Undefined
  /\ optMin = Undefined
  /\ optMax = Undefined
  /\ initFinite = FALSE
  /\ applied = FALSE
  /\ repeated = FALSE

\* ---------------------------------------------------------------- methods

\* constructor(controls)
constructor(c) ==
  /\ pc = "start"
  /\ lastCall' = "constructor"
  /\ UNCHANGED <<controlsEl, fields, lastArg, optMin, optMax, initFinite, applied,
                 repeated>>
  /\ IF c # "Controls"
       THEN /\ error' = "Error"
            /\ pc' = "failed"
            /\ UNCHANGED <<controls, controlsElement>>
       ELSE /\ error' = "none"
            /\ pc' = "constructed"
            /\ controls' = c
            /\ controlsElement' = "controlsEl"

\* validateZoom with a slip: the fallback is the parameter's default, 0,
\* whatever fallback the caller passed.
validateZoom_DefaultOnly(zoomValue, defaultZoomValue) ==
  IF isFinite(zoomValue) THEN zoomValue ELSE Fin(0)

\* validateZoom(zoomValue, defaultZoomValue)
validateZoom(zoomValue, defaultZoomValue) ==
  IF isFinite(zoomValue) THEN zoomValue ELSE defaultZoomValue

\* checkButtonEnablement with a slip: the zoom-in button tested against
\* the minimum (the line above it copied, the bound not changed).
checkButtonEnablement_WrongBound(h, cs, mn, mx) ==
  LET zoomOutElement == querySelector(h, CLASS_ZOOM_OUT_BUTTON)
      zoomInElement == querySelector(h, CLASS_ZOOM_IN_BUTTON)
      h1 == IF zoomOutElement # 0
              THEN [h EXCEPT !.els[zoomOutElement].disabled = LessEq(cs, mn)]
              ELSE h
  IN  IF zoomInElement # 0
        THEN [h1 EXCEPT !.els[zoomInElement].disabled = GreaterEq(cs, mn)]
        ELSE h1

\* checkButtonEnablement with a slip: strict comparisons, so that a button
\* stays enabled at its bound.
checkButtonEnablement_Strict(h, cs, mn, mx) ==
  LET zoomOutElement == querySelector(h, CLASS_ZOOM_OUT_BUTTON)
      zoomInElement == querySelector(h, CLASS_ZOOM_IN_BUTTON)
      h1 == IF zoomOutElement # 0
              THEN [h EXCEPT !.els[zoomOutElement].disabled = Less(cs, mn)]
              ELSE h
  IN  IF zoomInElement # 0
        THEN [h1 EXCEPT !.els[zoomInElement].disabled = Less(mx, cs)]
        ELSE h1

\* checkButtonEnablement(), on the tree h with this.currentScale = cs,
\* this.minZoom = mn, this.maxZoom = mx: the tree it leaves
checkButtonEnablement(h, cs, mn, mx) ==
  LET zoomOutElement == querySelector(h, CLASS_ZOOM_OUT_BUTTON)
      zoomInElement == querySelector(h, CLASS_ZOOM_IN_BUTTON)
      h1 == IF zoomOutElement # 0
              THEN [h EXCEPT !.els[zoomOutElement].disabled = LessEq(cs, mn)]
              ELSE h
  IN  IF zoomInElement # 0
        THEN [h1 EXCEPT !.els[zoomInElement].disabled = GreaterEq(cs, mx)]
        ELSE h1

\* setCurrentScale with a slip: the rounded percentage added to the stored
\* one (+= for =).
SetCurrentScaleBody_Accumulate(scale, h, cs, cse, mn, mx) ==
  IF ~isFinite(scale)
    THEN [currentScale |-> cs, tree |-> h, error |-> "none"]
    ELSE LET old == IF cs.k = "fin" THEN cs.n ELSE 0
             r == MathRound(Times100(scale))
             ncs == IF r.k = "fin" THEN Fin(old + r.n) ELSE r
         IN  IF cse = 0
               THEN [currentScale |-> ncs, tree |-> h, error |-> "TypeError"]
               ELSE [currentScale |-> ncs,
                     tree |-> checkButtonEnablement(
                                [h EXCEPT !.els[cse].text = NumberToString(ncs) \o <<"%">>],
                                ncs, mn, mx),
                     error |-> "none"]

\* The body of setCurrentScale(scale) on the tree h with this.currentScale =
\* cs, this.currentScaleElement = cse, this.minZoom = mn, this.maxZoom = mx:
\* the currentScale and the tree it leaves and what it throws. Writing
\* textContent of an unset currentScaleElement throws a TypeError, after
\* currentScale was assigned.
SetCurrentScaleBody(scale, h, cs, cse, mn, mx) ==
  IF ~isFinite(scale)
    THEN [currentScale |-> cs, tree |-> h, error |-> "none"]
    ELSE LET ncs == MathRound(Times100(scale))
         IN  IF cse = 0
               THEN [currentScale |-> ncs, tree |-> h, error |-> "TypeError"]
               ELSE [currentScale |-> ncs,
                     tree |-> checkButtonEnablement(
                                [h EXCEPT !.els[cse].text = NumberToString(ncs) \o <<"%">>],
                                ncs, mn, mx),
                     error |-> "none"]

\* A destructuring default: it replaces undefined only
DefaultTo(v, d) == IF v = Undefined THEN d ELSE v

\* init(currentScale, {zoomOutClassName, zoomInClassName, minZoom, maxZoom,
\* onZoomIn, onZoomOut}), called once on a constructed instance
init(scale, zoomOutClassName, zoomInClassName, oMin, oMax) ==
  /\ pc = "constructed"
  /\ LET mx == MathRound(Times100(validateZoom(DefaultTo(oMax, PosInf), PosInf)))
         mn == MathRound(Times100(
                 MathMax(validateZoom(DefaultTo(oMin, Fin(0)), Fin(0)), Fin(0))))
         h0 == addGroup(controlsEl)
         groupElement == Len(h0.dom)
         h1 == add(h0,
                   Element("zoom_out", "onZoomOut", "button",
                           ClassList({CLASS_BOX_CONTROLS_GROUP_BUTTON, CLASS_ZOOM_BUTTON,
                                      CLASS_ZOOM_OUT_BUTTON}, zoomOutClassName),
                           <<>>),
                   groupElement)
         h2 == add(h1,
                   Element("zoom_current_scale", "undefined", "div",
                           {CLASS_ZOOM_CURRENT_SCALE}, DefaultScaleText),
                   groupElement)
         h3 == add(h2,
                   Element("zoom_in", "onZoomIn", "button",
                           ClassList({CLASS_BOX_CONTROLS_GROUP_BUTTON, CLASS_ZOOM_BUTTON,
                                      CLASS_ZOOM_IN_BUTTON}, zoomInClassName),
                           <<>>),
                   groupElement)
         cse == querySelector(h3, CLASS_ZOOM_CURRENT_SCALE)
         r == SetCurrentScaleBody(scale, h3, currentScale, cse, mn, mx)
     IN  /\ maxZoom' = mx
         /\ minZoom' = mn
         /\ currentScaleElement' = cse
         /\ currentScale' = r.currentScale
         /\ controlsEl' = r.tree
         /\ error' = r.error
         /\ applied' = (isFinite(scale) /\ r.error = "none")
  /\ pc' = "initialized"
  /\ lastCall' = "init"
  /\ lastArg' = scale
  /\ optMin' = oMin
  /\ optMax' = oMax
  /\ initFinite' = (scale.k \in {"fin", "huge"})
  /\ repeated' = FALSE
  /\ UNCHANGED <<controls, controlsElement>>

\* setCurrentScale(scale), on a constructed instance, before or after init
setCurrentScale(scale) ==
  /\ pc \in {"constructed", "initialized"}
  /\ LET r == SetCurrentScaleBody(scale, controlsEl, currentScale,
                                  currentScaleElement, minZoom, maxZoom)
     IN  /\ currentScale' = r.currentScale
         /\ controlsEl' = r.tree
         /\ error' = r.error
         /\ applied' = (applied \/ (isFinite(scale) /\ r.error = "none"))
  /\ lastCall' = "setCurrentScale"
  /\ lastArg' = scale
  /\ repeated' = (lastCall = "setCurrentScale" /\ lastArg = scale)
  /\ UNCHANGED <<pc, controls, controlsElement, currentScaleElement, maxZoom,
                 minZoom, optMin, optMax, initFinite>>

\* The page takes a zoom button out of the control bar (the buttons are
\* looked up again at every enablement check, the tree is not the widget's).
removeButton(cls) ==
  /\ pc = "initialized"
  /\ querySelector(controlsEl, cls) # 0
  /\ controlsEl' = Detach(controlsEl, querySelector(controlsEl, cls))
  /\ lastCall' = "removeButton"
  /\ repeated' = FALSE
  /\ UNCHANGED <<pc, controls, controlsElement, fields, error, lastArg, optMin,
                 optMax, initFinite, applied>>

Next ==
  \/ \E c \in ControlsArgs : constructor(c)
  \/ \E scale \in ScaleArgs, cn \in ClassNameArgs,
        oMin \in MinZoomArgs, oMax \in MaxZoomArgs :
       init(scale, cn[1], cn[2], oMin, oMax)
  \/ \E scale \in ScaleArgs : setCurrentScale(scale)
  \/ \E cls \in {CLASS_ZOOM_OUT_BUTTON, CLASS_ZOOM_IN_BUTTON} : removeButton(cls)

Spec == Init /\ [][Next]_vars

\* ----------------------------------------------------- reading the display

\* The elements of the widget as the page finds them (0: not in the tree)
ZoomOutButton == querySelector(controlsEl, CLASS_ZOOM_OUT_BUTTON)
ZoomInButton == querySelector(controlsEl, CLASS_ZOOM_IN_BUTTON)
ZoomOutDisabled == controlsEl.els[ZoomOutButton].disabled
ZoomInDisabled == controlsEl.els[ZoomInButton].disabled
LabelText == controlsEl.els[currentScaleElement].text

\* The number a digit character stands for
DigitValue(c) == CHOOSE d \in 0..9 : DigitChars[d + 1] = c

RECURSIVE DigitsValue(_)
DigitsValue(cs) ==
  IF cs = <<>> THEN 0
  ELSE 10 * DigitsValue(SubSeq(cs, 1, Len(cs) - 1)) + DigitValue(cs[Len(cs)])

IsDigits(cs) ==
  /\ cs # <<>>
  /\ \A i \in 1..Len(cs) : \E d \in 0..9 : DigitChars[d + 1] = cs[i]

\* The number a displayed text "<number>%" reads as: an integer percentage,
\* "Infinity", or NaN for any other text
ReadPercent(text) ==
  IF text = <<>> \/ text[Len(text)] # "%" THEN NaN
  ELSE LET body == SubSeq(text, 1, Len(text) - 1)
           neg == body # <<>> /\ body[1] = "-"
           mag == IF neg THEN Tail(body) ELSE body
       IN  IF mag = <<"I", "n", "f", "i", "n", "i", "t", "y">>
             THEN [k |-> "inf", n |-> IF neg THEN -1 ELSE 1]
           ELSE IF IsDigits(mag)
             THEN Whole(IF neg THEN -DigitsValue(mag) ELSE DigitsValue(mag))
           ELSE NaN

\* The integer nearest to n/2, the upper one of two equally near: what
\* rounding (n/200) * 100 gives
NearestToHalf(n) ==
  CHOOSE p \in ((n \div 2) - 1)..((n \div 2) + 1) : 2 * p - 1 <= n /\ n < 2 * p + 1

\* round(scale * 100) of a finite scale; of a scale whose hundredfold
\* overflows, the infinity of its sign
RoundedPercent(scale) ==
  IF scale.k = "fin" THEN Whole(NearestToHalf(scale.n))
  ELSE [k |-> "inf", n |-> scale.n]

IsFiniteNumber(x) == x.k \in {"fin", "huge"}

\* A number's place among the extended reals, for comparing bounds
Place(x) ==
  CASE x.k = "fin" -> x.n
    [] x.k = "huge" -> x.n * 1000000
    [] OTHER -> x.n * 2000000

AtMost(a, b) == Place(a) <= Place(b)

\* The bounds the options stand for
ExpectedMin(o) ==
  CASE o.k = "fin" -> Whole(NearestToHalf(IF o.n > 0 THEN o.n ELSE 0))
    [] o.k = "huge" -> IF o.n > 0 THEN PosInf ELSE Whole(0)
    [] OTHER -> Whole(0)

ExpectedMax(o) ==
  IF IsFiniteNumber(o) THEN RoundedPercent(o) ELSE PosInf

\* ------------------------------------------------------------------ claims

\* C1: after init with a finite currentScale and any setCurrentScale calls,
\* a zoom-out button in the tree is disabled iff CurrentScale <= the minimum,
\* a zoom-in button in the tree is disabled iff CurrentScale >= the maximum,
\* the bounds are those of init, and with an unbounded maximum the zoom-in
\* button is never disabled. Fails: the hundredfold of the finite scale 1e307
\* is +Infinity, and Infinity >= Infinity disables the zoom-in button.
C1_ButtonsFollowBounds ==
  (pc = "initialized" /\ initFinite) =>
    /\ minZoom = ExpectedMin(optMin)
    /\ maxZoom = ExpectedMax(optMax)
    /\ ZoomOutButton # 0 => (ZoomOutDisabled <=> AtMost(currentScale, minZoom))
    /\ ZoomInButton # 0 => (ZoomInDisabled <=> AtMost(maxZoom, currentScale))
    /\ (ZoomInButton # 0 /\ maxZoom = PosInf) => ~ZoomInDisabled

\* C2: on an initialized instance a finite scale stores round(scale * 100)
\* and shows it followed by "%"; and once a scale was applied the label
\* always reads as the stored CurrentScale.
C2_LabelShowsRoundedScale ==
  /\ ( /\ pc = "initialized"
       /\ lastCall \in {"init", "setCurrentScale"}
       /\ IsFiniteNumber(lastArg) ) =>
       /\ currentScale = RoundedPercent(lastArg)
       /\ ReadPercent(LabelText) = RoundedPercent(lastArg)
  /\ applied => ReadPercent(LabelText) = currentScale

C2_Witness ==
  /\ pc = "initialized"
  /\ lastCall = "setCurrentScale"
  /\ lastArg = Fin(25)
  /\ LabelText = <<"1", "3", "%">>
  /\ currentScale = Whole(13)

\* C3: setCurrentScale with a scale that is not a finite number changes
\* nothing (CurrentScale, the tree with the label text and the disabled
\* flags, the bounds) and throws nothing, before and after init.
C3_NonFiniteScaleIsNoOp ==
  [][ (lastCall' = "setCurrentScale" /\ ~IsFiniteNumber(lastArg')) =>
        (UNCHANGED <<fields, controlsEl, pc>> /\ error' = "none") ]_vars

C3_Witness ==
  /\ pc = "initialized"
  /\ lastCall = "setCurrentScale"
  /\ lastArg = PosInf
  /\ applied
  /\ currentScale = Whole(50)
  /\ ZoomOutButton # 0 /\ ZoomOutDisabled

\* C4: after init the bounds are a function of the options: the minimum is
\* round(max(m, 0) * 100) with m = minZoom if finite, else 0; the maximum is
\* round(maxZoom * 100) if maxZoom is finite, else +Infinity; init throws
\* nothing whatever the bounds given.
C4_BoundsFromOptions ==
  pc = "initialized" =>
    /\ minZoom = ExpectedMin(optMin)
    /\ maxZoom = ExpectedMax(optMax)
    /\ lastCall = "init" => error = "none"

C4_Witness ==
  /\ pc = "initialized"
  /\ lastCall = "init"
  /\ optMin = Fin(-100)
  /\ optMax = Str
  /\ minZoom = Whole(0)
  /\ maxZoom = PosInf

\* C5: a call throws if and only if it is the constructor given something
\* that is no Controls instance; init and setCurrentScale never throw.
\* Fails: setCurrentScale with a finite scale before init writes the
\* textContent of an unset currentScaleElement.
C5_OnlyConstructorThrows ==
  /\ lastCall = "constructor" => (error = "Error" <=> pc = "failed")
  /\ pc = "failed" => (lastCall = "constructor" /\ controls # "Controls")
  /\ lastCall \in {"init", "setCurrentScale"} => error = "none"

\* C6: when init returns, the tree holds the three elements once each, in
\* the order zoom-out button, scale label, zoom-in button, in the group
\* created last; a finite currentScale is shown rounded and the buttons
\* follow the bounds, any other leaves "100%" and both buttons enabled.
C6_InitBuildsAndShows ==
  lastCall = "init" =>
    LET dom == controlsEl.dom
        e == controlsEl.els
        group == dom[Len(dom)]
        all == Flatten(dom)
        Once(cls) == Cardinality({i \in 1..Len(all) : cls \in e[all[i]].classes}) = 1
    IN  /\ Len(group) = 3
        /\ <<e[group[1]].label, e[group[2]].label, e[group[3]].label>>
             = <<"zoom_out", "zoom_current_scale", "zoom_in">>
        /\ <<e[group[1]].tag, e[group[2]].tag, e[group[3]].tag>>
             = <<"button", "div", "button">>
        /\ <<ZoomOutButton, currentScaleElement, ZoomInButton>>
             = <<group[1], group[2], group[3]>>
        /\ Once(CLASS_ZOOM_OUT_BUTTON)
        /\ Once(CLASS_ZOOM_CURRENT_SCALE)
        /\ Once(CLASS_ZOOM_IN_BUTTON)
        /\ error = "none"
        /\ IF IsFiniteNumber(lastArg)
             THEN /\ ReadPercent(LabelText) = RoundedPercent(lastArg)
                  /\ ZoomOutDisabled <=> AtMost(RoundedPercent(lastArg), ExpectedMin(optMin))
                  /\ ZoomInDisabled <=> AtMost(ExpectedMax(optMax), RoundedPercent(lastArg))
             ELSE /\ LabelText = <<"1", "0", "0", "%">>
                  /\ ~ZoomOutDisabled
                  /\ ~ZoomInDisabled

C6_Witness ==
  /\ lastCall = "init"
  /\ lastArg = Fin(50)
  /\ optMin = Fin(50)
  /\ optMax = Fin(200)
  /\ LabelText = <<"2", "5", "%">>
  /\ ZoomOutDisabled
  /\ ~ZoomInDisabled

\* C7: on an initialized instance, setCurrentScale(v) right after
\* setCurrentScale(v), v finite, leaves CurrentScale, the label text and the
\* disabled flags as the first call left them.
C7_SetCurrentScaleIdempotent ==
  [][ ( /\ pc = "initialized"
        /\ lastCall = "setCurrentScale"
        /\ lastCall' = "setCurrentScale"
        /\ lastArg' = lastArg
        /\ IsFiniteNumber(lastArg) ) =>
        UNCHANGED <<currentScale, controlsEl, error>> ]_vars

C7_Witness ==
  /\ pc = "initialized"
  /\ repeated
  /\ lastArg = Fin(100)
  /\ currentScale = Whole(50)
  /\ error = "none"

\* C8: after init, when both bounds are finite they are integers >= 0 with
\* the minimum <= the maximum. Fails: init checks neither the order of the
\* bounds nor the sign of maxZoom.
C8_BoundsOrdered ==
  (pc = "initialized" /\ minZoom.k = "fin" /\ maxZoom.k = "fin") =>
    /\ minZoom.n % Den = 0 /\ maxZoom.n % Den = 0
    /\ minZoom.n >= 0 /\ maxZoom.n >= 0
    /\ minZoom.n <= maxZoom.n

\* C9: once set by a call that returned, CurrentScale is a finite integer
\* >= 0. Fails: a negative scale is stored as a negative percentage, and the
\* hundredfold of 1e307 as +Infinity.
C9_CurrentScaleNonNegative ==
  applied =>
    /\ currentScale.k = "fin"
    /\ currentScale.n % Den = 0
    /\ currentScale.n >= 0

\* C10: when init left the minimum below the maximum, the two zoom buttons
\* are never both disabled, whatever scales init and setCurrentScale are
\* given.
C10_NotBothDisabled ==
  ( /\ pc = "initialized"
    /\ Place(minZoom) < Place(maxZoom)
    /\ ZoomOutButton # 0
    /\ ZoomInButton # 0 ) =>
    ~(ZoomOutDisabled /\ ZoomInDisabled)

C10_Witness ==
  /\ pc = "initialized"
  /\ minZoom = Whole(25)
  /\ maxZoom = Whole(100)
  /\ currentScale = Whole(100)
  /\ lastCall = "setCurrentScale"
  /\ ZoomOutButton # 0 /\ ~ZoomOutDisabled
  /\ ZoomInButton # 0 /\ ZoomInDisabled

====
